---- MODULE Spec2Model ----
(***************************************************************************)
(* Model of GigaLearnCPP/python_scripts/metric_receiver.py: the wandb      *)
(* session bridge (init, reconnect, add_metrics) and its module globals.   *)
(* Every handler is one action; the backend (wandb.init, run.finish,       *)
(* run.log) and the wall clock (time.time) are inputs of the actions.      *)
(***************************************************************************)
EXTENDS Integers, Sequences, FiniteSets, TLC

\* ------------------------------------------------------------------ bounds
MaxTime == 10           \* the wall clock is followed up to this value
MaxErrors == 4          \* error_count is followed up to this value
MaxOtherErrors == 1     \* non_conn_error_count is followed up to this value

\* ------------------------------------------------------- program constants
reconnect_cooldown == 5
LogCap == 3

\* Python's None, and a str value
None == [none |-> TRUE]
Str(s) == [str |-> s]

\* ---------------------------------------------------------------- globals
VARIABLES
    wandb_run,                \* None, or the session object it refers to
    wandb,                    \* None, or the imported module
    init_params,              \* None, or the dict stored by init
    last_reconnect_attempt,
    error_count,
    non_conn_error_count,
    environ,                  \* os.environ: WANDB_CONSOLE, WANDB_MODE
    \* ------------------------------------------------------- environment
    clock,                    \* last value returned by / current time.time()
    nsessions,                \* sessions created so far by wandb.init
    initState,                \* "no", or how the host's call of init ended
    \* ----------------------------------------------------------- history
    call,                     \* what the handler call that just returned did
    rlast,                    \* the latest invocation of reconnect
    attempts,                 \* times of the last two reconnects past the gates
    orphans,                  \* replaced sessions that were not closed
    warned,                   \* warning lines add_metrics has printed
    sustained                 \* every add_metrics so far failed on the connection

vars == <<wandb_run, wandb, init_params, last_reconnect_attempt, error_count,
          non_conn_error_count, environ, clock, nsessions, initState,
          call, rlast, attempts, orphans, warned, sustained>>

\* ------------------------------------------------------------- exceptions
\* Exception classes the backend may raise, all below Exception.
ExcClasses == {"ConnectionError", "OSError", "CommError"}

\* class c is h or a subclass of h
IsSubclass(c, h) ==
    \/ c = h
    \/ h = "Exception"
    \/ (c = "ConnectionError" /\ h = "OSError")

\* an except clause naming the classes hs handles exception e
Catches(hs, e) == \E h \in hs : IsSubclass(e.cls, h)

\* str(e) of the exceptions run.log may raise
ErrorDescriptions ==
    << <<"C", "o", "n", "n", "e", "c", "t", "i", "o", "n", " ", "r", "e", "s",
         "e", "t", " ", "b", "y", " ", "p", "e", "e", "r">>,
       <<"i", "n", "v", "a", "l", "i", "d", " ", "m", "e", "t", "r", "i", "c",
         " ", "k", "e", "y">>,
       <<"R", "e", "a", "d", " ", "T", "I", "M", "E", "O", "U", "T">> >>

LogExceptions == [cls : ExcClasses, msg : 1..Len(ErrorDescriptions)]
OtherExceptions == [cls : {"CommError"}, msg : {1}]

\* outcomes of a backend call: None (returned) or the exception raised
LogOutcomes == {None} \cup LogExceptions
BackendOutcomes == {None} \cup OtherExceptions

\* ----------------------------------------------------- str.lower and `in`
UpperCase == <<"A", "B", "C", "D", "E", "F", "G", "H", "I", "J", "K", "L", "M",
               "N", "O", "P", "Q", "R", "S", "T", "U", "V", "W", "X", "Y", "Z">>
LowerCase == <<"a", "b", "c", "d", "e", "f", "g", "h", "i", "j", "k", "l", "m",
               "n", "o", "p", "q", "r", "s", "t", "u", "v", "w", "x", "y", "z">>

LowerChar(c) ==
    IF \E i \in 1..26 : UpperCase[i] = c
    THEN LowerCase[CHOOSE i \in 1..26 : UpperCase[i] = c]
    ELSE c

Lower(s) == [i \in 1..Len(s) |-> LowerChar(s[i])]

\* Python's `k in s` on strings
Contains(s, k) ==
    \E i \in 1..(Len(s) - Len(k) + 1) : SubSeq(s, i, i + Len(k) - 1) = k

ConnectionWords ==
    { <<"s", "o", "c", "k", "e", "t">>,
      <<"c", "o", "n", "n", "e", "c", "t", "i", "o", "n">>,
      <<"n", "e", "t", "w", "o", "r", "k">>,
      <<"r", "e", "s", "e", "t">>,
      <<"t", "i", "m", "e", "o", "u", "t">> }

\* line 155-162, tabulated once for the descriptions of ErrorDescriptions
ConnectionDescription ==
    [m \in DOMAIN ErrorDescriptions |->
        LET error_str == Lower(ErrorDescriptions[m])
        IN  \E w \in ConnectionWords : Contains(error_str, w)]

\* the match without .lower()
CaseSensitiveMatch(e) ==
    \E w \in ConnectionWords : Contains(ErrorDescriptions[e.msg], w)

\* the `or` chain always true
AlwaysConnection(e) == TRUE

\* line 155-162
is_connection_error(e) == ConnectionDescription[e.msg]

\* ------------------------------------------------------ inputs of init
Projects == {"proj"}
Ids == {None, Str(""), Str("abc123")}

\* time.time() never runs backwards; a read returns the clock or a later time
Delays == {0, reconnect_cooldown}
Times(now) == {now + d : d \in Delays} \cap (0..MaxTime)

\* the host lets some seconds pass between two calls
Waits == {2}
Later(now) == {now + d : d \in Waits} \cap (0..MaxTime)

\* -------------------------------------------------------------- wandb.init
\* the keyword arguments of one wandb.init call
UseResume(id) == id # None /\ Len(id.str) > 0

Request(params, mode) ==
    [project |-> params.project, group |-> params.group, name |-> params.name,
     id |-> IF UseResume(params.id) THEN params.id ELSE None,
     resume |-> IF UseResume(params.id) THEN Str("allow") ELSE None,
     mode |-> IF mode = "offline" THEN Str("offline") ELSE None,
     settings |-> IF mode = "offline" THEN None ELSE Str("_disable_stats")]

\* the working record of a handler: the globals, the clock, and what the
\* call has done so far
Start(op) ==
    [wandb_run |-> wandb_run, wandb |-> wandb, init_params |-> init_params,
     last_reconnect_attempt |-> last_reconnect_attempt,
     error_count |-> error_count, non_conn_error_count |-> non_conn_error_count,
     environ |-> environ, now |-> clock, nsessions |-> nsessions,
     op |-> op, exc |-> None, ret |-> None, started |-> wandb_run # None,
     recs |-> <<>>, fwds |-> <<>>, reqs |-> <<>>,
     rlast |-> rlast, attempts |-> attempts, orphans |-> orphans,
     stale |-> FALSE,
     est |-> "none", detected |-> 0, capped |-> 0, reconn |-> 0, other |-> 0]

\* wandb_run = wandb.init(**req): on success the global is rebound to the new
\* session, on failure the exception is left in s.exc and the global is kept
\* rebinding the global drops the only reference to the old session: it is
\* counted when its close failed, or was never called
Orphaned(s) ==
    IF s.wandb_run = None \/ s.wandb_run.finish = "ok" THEN s.orphans
    ELSE IF s.wandb_run.finish = "raised"
         THEN [s.orphans EXCEPT !.raised = @ + 1]
         ELSE [s.orphans EXCEPT !.unclosed = @ + 1]

wandb_init(s, req, outcome) ==
    IF outcome = None
    THEN [s EXCEPT !.wandb_run = [sid |-> s.nsessions + 1, req |-> req,
                                  forced |-> s.environ.WANDB_MODE,
                                  finish |-> "no"],
                   !.nsessions = s.nsessions + 1,
                   !.orphans = Orphaned(s),
                   !.reqs = Append(@, req)]
    ELSE [s EXCEPT !.exc = outcome, !.reqs = Append(@, req)]

\* wandb_run.id: the resumed id, or one the backend generates
RunId(run) == IF run.req.id # None THEN run.req.id ELSE [gen |-> run.sid]

\* wandb_run.finish() inside try / bare except: the error is dropped; a run
\* that was closed stays closed
finish(s, outcome) ==
    [s EXCEPT !.wandb_run.finish = IF outcome = None \/ @ = "ok"
                                   THEN "ok" ELSE "raised"]

\* -------------------------------------------------------------------- init
\* lines 57-65: the except clause of the online attempt
InitFallback(s, args, off) ==
    LET s1 == wandb_init([s EXCEPT !.exc = None,
                                   !.environ.WANDB_MODE = "offline"],
                         Request(args, "offline"), off)
    IN  IF s1.exc = None
        THEN [s1 EXCEPT !.ret = RunId(s1.wandb_run), !.est = "offline"]
        ELSE [s1 EXCEPT !.est = "failed"]

\* lines 17-65; imp is the outcome of `import wandb`
init(s, project, id, imp, onl, off) ==
    IF imp # None
    THEN [s EXCEPT !.exc = [cls |-> "Exception", msg |-> 1]]
    ELSE LET args == [py_exec_path |-> "python.exe", project |-> project,
                      group |-> "group", name |-> "name", id |-> id]
             s1 == [s EXCEPT !.wandb = Str("wandb"),
                             !.init_params = args,
                             !.environ.WANDB_CONSOLE = "off"]
             s2 == wandb_init(s1, Request(args, "online"), onl)
         IN  IF s2.exc = None
             THEN [s2 EXCEPT !.ret = RunId(s2.wandb_run), !.est = "online"]
             ELSE IF Catches({"Exception"}, s2.exc)
                  THEN InitFallback(s2, args, off)
                  ELSE s2

\* --------------------------------------------------------------- reconnect
\* one entry of the history of reconnect invocations
Rec(s0, s1, t, gate) ==
    [prev |-> IF s0.rlast = None THEN None
              ELSE [gap |-> t - s0.rlast.t, gate |-> s0.rlast.gate,
                    ret |-> s0.rlast.ret],
     ret |-> s1.ret, gate |-> gate, est |-> s1.est,
     closed |-> (gate = "passed" /\ s0.wandb_run # None),
     created |-> s1.nsessions - s0.nsessions,
     changed |-> s1.wandb_run # s0.wandb_run,
     stamped |-> s1.last_reconnect_attempt # s0.last_reconnect_attempt]

\* the invocation of reconnect that started in s0 at time t ends in s1
Invoked(s0, s1, t, gate) ==
    [s1 EXCEPT !.recs = Append(@, Rec(s0, s1, t, gate)),
               !.rlast = [t |-> t, gate |-> gate, ret |-> s1.ret]]

Last2(q) == IF Len(q) <= 2 THEN q ELSE SubSeq(q, Len(q) - 1, Len(q))

\* line 73 and line 78: return False before anything is touched
Refused(s, t, gate) ==
    Invoked(s, [s EXCEPT !.ret = FALSE, !.now = t, !.est = "none"], t, gate)

\* the first gate missing
NoParamsIgnored(s) == FALSE

\* line 71
NoParams(s) == s.init_params = None

\* the comparison the wrong way round
InCooldownInverted(t, last) == t - last > reconnect_cooldown

\* line 76
InCooldown(t, last) == t - last < reconnect_cooldown

\* the timestamp never written
StampSkipped(s, t) == s

\* the timestamp taken from the clock value the call began with
StampStale(s, t) == [s EXCEPT !.last_reconnect_attempt = s.now]

\* line 80
Stamp(s, t) == [s EXCEPT !.last_reconnect_attempt = t]

\* the old run replaced without a close
CloseExistingSkipped(s, fin) == s

\* lines 85-89: best-effort close of the existing run
CloseExisting(s, fin) ==
    IF s.wandb_run # None THEN finish(s, fin) ELSE s

\* the request built without the stored run id
CreateFresh(s, mode, outcome) ==
    IF s.init_params = None
    THEN [s EXCEPT !.exc = [cls |-> "TypeError", msg |-> 1]]
    ELSE wandb_init(s, Request([s.init_params EXCEPT !.id = None], mode),
                    outcome)

\* params['id'], params['project'], ...: subscripting None raises TypeError
Create(s, mode, outcome) ==
    IF s.init_params = None
    THEN [s EXCEPT !.exc = [cls |-> "TypeError", msg |-> 1]]
    ELSE wandb_init(s, Request(s.init_params, mode), outcome)

\* the offline fallback reported as a failure
ReconnectFallbackFails(s, off) ==
    LET s1 == Create([s EXCEPT !.exc = None, !.reconn = @ + 1,
                               !.environ.WANDB_MODE = "offline"],
                     "offline", off)
    IN  IF s1.exc = None
        THEN [s1 EXCEPT !.ret = FALSE, !.est = "offline"]
        ELSE [s1 EXCEPT !.est = "failed"]

\* the offline fallback made without the resume id
ReconnectFallbackFresh(s, off) ==
    LET s1 == CreateFresh([s EXCEPT !.exc = None, !.reconn = @ + 1,
                                    !.environ.WANDB_MODE = "offline"],
                          "offline", off)
    IN  IF s1.exc = None
        THEN [s1 EXCEPT !.ret = TRUE, !.est = "offline"]
        ELSE [s1 EXCEPT !.est = "failed"]

\* lines 115-136: the except clause of the online attempt
ReconnectFallback(s, off) ==
    LET s1 == Create([s EXCEPT !.exc = None, !.reconn = @ + 1,
                               !.environ.WANDB_MODE = "offline"],
                     "offline", off)
    IN  IF s1.exc = None
        THEN [s1 EXCEPT !.ret = TRUE, !.est = "offline"]
        ELSE [s1 EXCEPT !.est = "failed"]

\* WANDB_MODE removed from the environment before the online attempt
EstablishClearsMode(s, onl, off) ==
    LET s1 == Create([s EXCEPT !.environ.WANDB_MODE = "unset"], "online", onl)
    IN  IF s1.exc = None
        THEN [s1 EXCEPT !.ret = TRUE, !.est = "online"]
        ELSE IF Catches({"Exception"}, s1.exc)
             THEN ReconnectFallback(s1, off)
             ELSE s1

\* lines 95-136: online first, offline on any Exception
Establish(s, onl, off) ==
    LET s1 == Create(s, "online", onl)
    IN  IF s1.exc = None
        THEN [s1 EXCEPT !.ret = TRUE, !.est = "online"]
        ELSE IF Catches({"Exception"}, s1.exc)
             THEN ReconnectFallback(s1, off)
             ELSE s1

\* the handle cleared when both establishments failed
GiveUpClearsRun(s) ==
    IF s.exc # None /\ Catches({"Exception"}, s.exc)
    THEN [s EXCEPT !.ret = FALSE, !.exc = None, !.reconn = @ + 1,
                   !.wandb_run = None]
    ELSE s

\* lines 137-139: the outer except clause
GiveUp(s) ==
    IF s.exc # None /\ Catches({"Exception"}, s.exc)
    THEN [s EXCEPT !.ret = FALSE, !.exc = None, !.reconn = @ + 1]
    ELSE s

\* lines 80-139 of reconnect, after both gates
Reestablish(s, t, fin, onl, off) ==
    LET s1 == [Stamp(s, t) EXCEPT !.now = t, !.attempts = Last2(Append(@, t)),
                                  !.est = "none"]
        s2 == CloseExisting(s1, fin)
        s3 == [s2 EXCEPT !.environ.WANDB_CONSOLE = "off"]
    IN  Invoked(s, GiveUp(Establish(s3, onl, off)), t, "passed")

\* lines 67-139
reconnect(s, t, fin, onl, off) ==
    IF NoParams(s)
    THEN Refused([s EXCEPT !.reconn = @ + 1], s.now, "noparams")
    ELSE IF InCooldown(t, s.last_reconnect_attempt)
         THEN Refused(s, t, "cooldown")
         ELSE Reestablish(s, t, fin, onl, off)

\* every way a reconnect invoked in s can end; the clock read and the backend
\* responses are drawn only on the paths that consume them
ReconnectOutcomes(s) ==
    IF NoParams(s) THEN { reconnect(s, s.now, None, None, None) }
    ELSE UNION { IF InCooldown(t, s.last_reconnect_attempt)
                 THEN { reconnect(s, t, None, None, None) }
                 ELSE { reconnect(s, t, fin, onl, off) :
                          fin \in BackendOutcomes, onl \in BackendOutcomes,
                          off \in BackendOutcomes } :
                 t \in Times(s.now) }

\* ------------------------------------------------------------- add_metrics
\* the cap missing
PrintedAlways(count) == TRUE

\* lines 168, 177, 180, 183, 189: only the first LogCap occurrences print
Printed(count) == count <= LogCap

\* wandb_run.log(metrics) was called and ended with outcome e
Forwarded(s, e) ==
    [s EXCEPT !.fwds = Append(@, IF e = None THEN 0 ELSE e.msg),
              !.stale = @ \/ s.wandb_run.finish # "no"]

\* the retry outside any try
RetryUnguarded(s, e) ==
    LET s1 == Forwarded(s, e)
    IN  IF e = None THEN s1 ELSE [s1 EXCEPT !.exc = e]

\* lines 175-181: the one retry, inside try / except Exception
Retry(s, e) ==
    LET s1 == Forwarded(s, e)
    IN  IF e = None THEN s1
        ELSE IF Catches({"Exception"}, e)
             THEN [s1 EXCEPT !.capped = @ + IF Printed(s1.error_count)
                                             THEN 1 ELSE 0]
             ELSE [s1 EXCEPT !.exc = e]

\* the retry made whatever reconnect returned
OnConnectionErrorAlwaysRetries(s) ==
    LET s1 == [s EXCEPT !.error_count = @ + 1,
                        !.detected = @ + IF Printed(s.error_count + 1)
                                         THEN 1 ELSE 0]
    IN  UNION { IF r.exc # None THEN {r}
                ELSE { Retry(r, e2) : e2 \in BackendOutcomes } :
                r \in ReconnectOutcomes(s1) }

\* reconnect tried only while the tally is within the cap
OnConnectionErrorCapped(s) ==
    LET s1 == [s EXCEPT !.error_count = @ + 1,
                        !.detected = @ + IF Printed(s.error_count + 1)
                                         THEN 1 ELSE 0]
    IN  IF ~Printed(s1.error_count) THEN {s1}
        ELSE UNION { IF r.exc # None THEN {r}
                     ELSE IF r.ret
                          THEN { Retry(r, e2) : e2 \in BackendOutcomes }
                          ELSE { [r EXCEPT !.capped = @ + 1] } :
                     r \in ReconnectOutcomes(s1) }

\* lines 164-184: the connection-class branch
OnConnectionError(s) ==
    LET s1 == [s EXCEPT !.error_count = @ + 1,
                        !.detected = @ + IF Printed(s.error_count + 1)
                                         THEN 1 ELSE 0]
    IN  UNION { IF r.exc # None THEN {r}
                ELSE IF r.ret
                     THEN { Retry(r, e2) : e2 \in BackendOutcomes }
                     ELSE { [r EXCEPT !.capped = @ + IF Printed(r.error_count)
                                                       THEN 1 ELSE 0] } :
                r \in ReconnectOutcomes(s1) }

\* lines 185-190: the other-class branch
OnOtherError(s) ==
    [s EXCEPT !.non_conn_error_count = @ + 1,
              !.other = @ + IF Printed(s.non_conn_error_count + 1)
                               THEN 1 ELSE 0]

\* lines 149-190: the first forward and its except clause
Forward(s, e) ==
    LET s1 == Forwarded(s, e)
    IN  IF e = None THEN {s1}
        ELSE IF ~Catches({"ConnectionError", "OSError", "Exception"}, e)
             THEN {[s1 EXCEPT !.exc = e]}
             ELSE IF is_connection_error(e)
                  THEN OnConnectionError(s1)
                  ELSE {OnOtherError(s1)}

\* lines 144-147: with no run, reconnect first and give up if it refuses
Connected(s) ==
    IF s.wandb_run = None
    THEN ReconnectOutcomes(s)
    ELSE {s}

\* every way add_metrics called in s can end
add_metrics(s) ==
    UNION { IF s.wandb_run = None /\ (r.exc # None \/ ~r.ret)
            THEN {r}
            ELSE UNION { Forward(r, e) : e \in LogOutcomes } :
            r \in Connected(s) }

\* ------------------------------------------------------------ the history
\* the call's first forward failed with a connection-class error
ConnectionFailed(s) ==
    /\ Len(s.fwds) >= 1
    /\ s.fwds[1] # 0
    /\ is_connection_error([cls |-> "Exception", msg |-> s.fwds[1]])

\* the handler returns (or raises): its working record becomes the state
Commit(s) ==
    /\ wandb_run' = s.wandb_run
    /\ wandb' = s.wandb
    /\ init_params' = s.init_params
    /\ last_reconnect_attempt' = s.last_reconnect_attempt
    /\ error_count' = s.error_count
    /\ non_conn_error_count' = s.non_conn_error_count
    /\ environ' = s.environ
    /\ clock' = s.now
    /\ nsessions' = s.nsessions
    /\ initState' = IF s.op # "init" THEN initState
                    ELSE IF s.exc = None THEN "ok" ELSE "raised"
    /\ call' = [op |-> s.op, raised |-> s.exc # None,
                ret |-> IF s.exc # None \/ s.op = "add_metrics"
                        THEN None ELSE [val |-> s.ret],
                started |-> s.started, recs |-> s.recs, fwds |-> s.fwds,
                reqs |-> s.reqs, est |-> s.est, reconn |-> s.reconn,
                other |-> s.other, stale |-> s.stale]
    /\ rlast' = s.rlast
    /\ orphans' = s.orphans
    /\ attempts' = s.attempts
    /\ warned' = [detected |-> warned.detected + s.detected,
                  capped |-> warned.capped + s.capped]
    /\ sustained' = (sustained /\ (s.op = "add_metrics" => ConnectionFailed(s)))

\* ----------------------------------------------------------------- actions
NoCall ==
    [op |-> "none", raised |-> FALSE, ret |-> None, started |-> FALSE,
     recs |-> <<>>, fwds |-> <<>>, reqs |-> <<>>, est |-> "none",
     reconn |-> 0, other |-> 0, stale |-> FALSE]

Init ==
    /\ wandb_run = None
    /\ wandb = None
    /\ init_params = None
    /\ last_reconnect_attempt = 0
    /\ error_count = 0
    /\ non_conn_error_count = 0
    /\ environ = [WANDB_CONSOLE |-> "unset", WANDB_MODE |-> "unset"]
    /\ clock = reconnect_cooldown
    /\ nsessions = 0
    /\ initState = "no"
    /\ call = NoCall
    /\ rlast = None
    /\ attempts = <<>>
    /\ orphans = [raised |-> 0, unclosed |-> 0]
    /\ warned = [detected |-> 0, capped |-> 0]
    /\ sustained = TRUE

\* the host calls init (once per process)
InitCall ==
    /\ initState = "no"
    /\ \E project \in Projects, id \in Ids,
          imp \in {None, [cls |-> "ImportError", msg |-> 1]},
          onl \in BackendOutcomes, off \in BackendOutcomes :
            Commit(init(Start("init"), project, id, imp, onl, off))

\* the host calls reconnect directly
ReconnectCall ==
    \E s \in ReconnectOutcomes(Start("reconnect")) : Commit(s)

\* the host calls add_metrics
AddMetricsCall ==
    \E s \in add_metrics(Start("add_metrics")) :
        /\ s.error_count <= MaxErrors
        /\ s.non_conn_error_count <= MaxOtherErrors
        /\ Commit(s)

\* time passes between two calls
Tick ==
    /\ clock' \in Later(clock)
    /\ call' = NoCall
    /\ UNCHANGED <<wandb_run, wandb, init_params, last_reconnect_attempt,
                   error_count, non_conn_error_count, environ, nsessions,
                   initState, rlast, attempts, orphans, warned, sustained>>

Next == InitCall \/ ReconnectCall \/ AddMetricsCall \/ Tick

Spec == Init /\ [][Next]_vars

\* ================================================================== claims
\* the reconnect invocations of the call that just returned
CallRecs == { call.recs[i] : i \in 1..Len(call.recs) }

\* a reconnect invocation that returned False and touched nothing
Untouched(r) ==
    /\ r.ret = FALSE
    /\ ~r.closed
    /\ r.created = 0
    /\ ~r.changed

\* descriptions of ErrorDescriptions that name a connection condition
\* ("Connection reset by peer", "Read TIMEOUT"), and the others
ConnectionClassMsgs == {1, 3}
OtherClassMsgs == {2}

\* C1: once init has returned normally, no call of add_metrics raises,
\* whatever the backend does in the forward, the close, the re-establishment
\* and the retry.
C1_SubmitNeverRaises ==
    (initState = "ok" /\ call.op = "add_metrics") => ~call.raised

\* an add_metrics after a successful init whose forward failed on the
\* connection, whose reconnect closed the old run and whose retry failed too
C1_Witness ==
    /\ initState = "ok"
    /\ call.op = "add_metrics"
    /\ Len(call.fwds) = 2
    /\ call.fwds[2] # 0
    /\ \E r \in CallRecs : r.closed /\ r.est = "offline"

\* C2: init raises only when `import wandb` failed (the module global is
\* still None); a failed establishment is never surfaced.
C2_InitRaisesOnlyOnImport ==
    (call.op = "init" /\ call.raised) => wandb = None

\* C3 (as claimed): a reconnect invoked less than reconnect_cooldown after the
\* previous invocation, whatever that one's outcome, returns False and touches
\* no session.
C3_AnyCallWithinCooldownRefused ==
    \A r \in CallRecs :
        (r.prev # None /\ r.prev.gap < reconnect_cooldown) => Untouched(r)

\* C3 (amended): a reconnect invoked less than reconnect_cooldown after an
\* invocation that passed both gates returns False and touches no session.
C3_CallAfterAttemptRefused ==
    \A r \in CallRecs :
        (/\ r.prev # None
         /\ r.prev.gate = "passed"
         /\ r.prev.gap < reconnect_cooldown) => Untouched(r) /\ ~r.stamped

\* a reconnect refused by the cooldown, some seconds after one that passed
C3_Witness ==
    \E r \in CallRecs :
        /\ r.prev # None
        /\ r.prev.gate = "passed"
        /\ r.prev.gap > 0
        /\ r.prev.gap < reconnect_cooldown
        /\ r.gate = "cooldown"

\* C4: two reconnects that pass the gates are at least reconnect_cooldown
\* apart (the clock never runs backwards).
C4_AttemptsSpaced ==
    Len(attempts) = 2 => attempts[2] - attempts[1] >= reconnect_cooldown

\* the second attempt, made from add_metrics after several failed submissions
C4_Witness ==
    /\ Len(attempts) = 2
    /\ call.op = "add_metrics"
    /\ error_count >= 3
    /\ \E r \in CallRecs : r.gate = "passed"

\* C5 (as claimed): reconnect returns True when a session was formed, and
\* False only when there are no parameters or the cooldown has not elapsed.
C5_FalseOnlyWhenRefused ==
    \A r \in CallRecs :
        /\ r.created > 0 => r.ret = TRUE
        /\ r.ret = FALSE => r.gate \in {"noparams", "cooldown"}

\* C5 (amended): reconnect returns True when a session was formed, and False
\* only when there are no parameters, the cooldown has not elapsed, or the
\* online and the offline establishment both failed.
C5_FalseWhenRefusedOrFailed ==
    \A r \in CallRecs :
        /\ r.created > 0 => r.ret = TRUE
        /\ r.ret = FALSE =>
              \/ r.gate \in {"noparams", "cooldown"}
              \/ (r.gate = "passed" /\ r.est = "failed" /\ r.created = 0)

\* a reconnect that formed its session by the offline fallback
C5_Witness ==
    \E r \in CallRecs : r.est = "offline" /\ r.created = 1 /\ r.ret = TRUE

\* C6 (as claimed): an add_metrics whose first forward fails with a
\* connection-class error makes exactly one reconnect and one retry.
C6_ExactlyOneReconnectAndRetry ==
    (/\ call.op = "add_metrics"
     /\ Len(call.fwds) >= 1
     /\ call.fwds[1] \in ConnectionClassMsgs)
    => Len(call.recs) = 1 /\ Len(call.fwds) = 2

\* C6 (amended): such a call invokes reconnect exactly once after the failure
\* (and once more before the forward when it started without a run), and
\* retries the forward once exactly when that reconnect returned True.
C6_RetryIffReconnected ==
    (/\ call.op = "add_metrics"
     /\ Len(call.fwds) >= 1
     /\ call.fwds[1] \in ConnectionClassMsgs)
    => /\ Len(call.recs) = IF call.started THEN 1 ELSE 2
       /\ Len(call.fwds) = IF call.recs[Len(call.recs)].ret = TRUE THEN 2 ELSE 1

\* "Connection reset by peer" while the cooldown is active: one reconnect,
\* refused, and no retry
C6_Witness ==
    /\ call.op = "add_metrics"
    /\ call.fwds = <<1>>
    /\ Len(call.recs) = 1
    /\ call.recs[1].gate = "cooldown"

\* C7: an add_metrics that starts with a run and whose forward fails with an
\* other-class error invokes no reconnect and no retry; the run, the
\* parameters, the cooldown timestamp and error_count are unchanged and
\* non_conn_error_count grows by one.
C7_OtherErrorTouchesNothing ==
    [][(/\ call'.op = "add_metrics"
        /\ call'.started
        /\ Len(call'.fwds) >= 1
        /\ call'.fwds[1] \in OtherClassMsgs)
       => /\ call'.recs = <<>>
          /\ Len(call'.fwds) = 1
          /\ wandb_run' = wandb_run
          /\ init_params' = init_params
          /\ last_reconnect_attempt' = last_reconnect_attempt
          /\ error_count' = error_count
          /\ non_conn_error_count' = non_conn_error_count + 1]_vars

\* "invalid metric key" on an existing run
C7_Witness ==
    /\ call.op = "add_metrics"
    /\ call.started
    /\ call.fwds = <<2>>
    /\ call.other = 1

\* C8 (as claimed): while every add_metrics so far (up to 100) has failed on
\* the connection, add_metrics has printed at most 3 warning lines.
C8_AtMostThreeLines ==
    (sustained /\ error_count <= 100) => warned.detected + warned.capped <= 3

\* C8 (amended): add_metrics prints its connection-class warnings for the
\* first LogCap failures only: at most LogCap "connection error detected"
\* lines and at most LogCap follow-up lines.
C8_FirstOccurrencesOnly ==
    /\ warned.detected <= LogCap
    /\ warned.capped <= LogCap

\* an outage longer than the cap, with every capped line printed
C8_Witness ==
    /\ sustained
    /\ error_count > LogCap
    /\ warned.detected = LogCap
    /\ warned.capped = LogCap

\* C9: without stored parameters every reconnect returns False and leaves the
\* run and the cooldown timestamp alone, so no session is ever formed.
C9_NoParamsNoSession ==
    init_params = None =>
        /\ wandb_run = None
        /\ nsessions = 0
        /\ \A r \in CallRecs :
              Untouched(r) /\ ~r.stamped /\ r.gate = "noparams"

\* a reconnect after init aborted on the import, at a time when the cooldown
\* gate would let it pass
C9_Witness ==
    /\ init_params = None
    /\ initState = "raised"
    /\ call.op = "reconnect"
    /\ Len(call.recs) = 1
    /\ clock > reconnect_cooldown
    /\ ~InCooldown(clock, last_reconnect_attempt)

\* C10: when the online attempt of init fails, the offline request carries
\* the same resume semantics (a non-empty id with resume allowed, otherwise
\* neither) and init does not raise.
C10_OfflineFallbackKeepsResume ==
    (call.op = "init" /\ Len(call.reqs) = 2) =>
        /\ ~call.raised
        /\ call.reqs[2].mode = Str("offline")
        /\ IF init_params.id \notin {None, Str("")}
           THEN /\ call.reqs[2].id = init_params.id
                /\ call.reqs[2].resume = Str("allow")
           ELSE /\ call.reqs[2].id = None
                /\ call.reqs[2].resume = None

\* sessions created and not closed: the current run unless its close
\* returned, and the replaced ones whose close raised or was never called
Live ==
    orphans.raised + orphans.unclosed
    + IF wandb_run # None /\ wandb_run.finish # "ok" THEN 1 ELSE 0

\* sessions created on which close was never called
NeverClosed ==
    orphans.unclosed
    + IF wandb_run # None /\ wandb_run.finish = "no" THEN 1 ELSE 0

\* C11 (as claimed): at most one session created by init or reconnect is live
\* (created and not closed), also when the close of the old one raised.
C11_AtMostOneLive == Live <= 1

\* C11 (amended): at most one session exists on which close has not been
\* called: every session is closed best-effort before it is replaced, and
\* only a session whose close raised can stay open beside the current one.
C11_AtMostOneNeverClosed ==
    /\ NeverClosed <= 1
    /\ orphans.unclosed = 0

\* a reconnect replaced a run whose close raised
C11_Witness ==
    /\ orphans.raised >= 1
    /\ wandb_run # None
    /\ wandb_run.finish = "no"
    /\ \E r \in CallRecs : r.closed /\ r.created = 1

\* the reconnect invocations of the call that passed both gates
PassedRecs == { i \in 1..Len(call.recs) : call.recs[i].gate = "passed" }

\* C12: within one add_metrics call at most one reconnect passes the cooldown
\* gate, also when the call starts with no run, reconnects, and the forward
\* then fails on the connection, however far the clock advances meanwhile.
C12_OneAttemptPerCall ==
    call.op = "add_metrics" => Cardinality(PassedRecs) <= 1

\* C13: an add_metrics call forwards the metrics at most twice; the second
\* forward happens only after the first failed with a connection-class error
\* and the reconnect that followed returned True, and nothing follows it.
C13_AtMostOneRetry ==
    call.op = "add_metrics" =>
        /\ Len(call.fwds) <= 2
        /\ Len(call.fwds) = 2 =>
              /\ call.fwds[1] \in ConnectionClassMsgs
              /\ Len(call.recs) = IF call.started THEN 1 ELSE 2
              /\ call.recs[Len(call.recs)].ret = TRUE

\* a retry that failed as well, on a run that existed when the call began
C13_Witness ==
    /\ call.op = "add_metrics"
    /\ call.started
    /\ Len(call.fwds) = 2
    /\ call.fwds[2] # 0
    /\ Len(call.recs) = 1

\* C14: last_reconnect_attempt is written only by a reconnect that passes both
\* gates, and by every such one, with the time it read, whether it then
\* succeeds online, succeeds offline or fails; refused reconnects, init and
\* the forwards of add_metrics leave it alone.
C14_StampedOnEveryAttemptOnly ==
    /\ [](/\ last_reconnect_attempt =
               IF attempts = <<>> THEN 0 ELSE attempts[Len(attempts)]
          /\ \A r \in CallRecs : r.stamped <=> r.gate = "passed")
    /\ [][(\A i \in 1..Len(call'.recs) : call'.recs[i].gate # "passed")
          => last_reconnect_attempt' = last_reconnect_attempt]_vars

\* a reconnect that passed the gates and failed online and offline, yet moved
\* the timestamp
C14_Witness ==
    /\ \E r \in CallRecs : r.gate = "passed" /\ r.est = "failed" /\ r.stamped
    /\ last_reconnect_attempt = clock
    /\ clock > reconnect_cooldown

\* the request carries the stored project, group and name, and the stored run
\* id (with resume "allow") when one is stored, no id otherwise
CarriesStored(req, params) ==
    /\ req.project = params.project
    /\ req.group = params.group
    /\ req.name = params.name
    /\ IF params.id # None /\ params.id # Str("")
       THEN req.id = params.id /\ req.resume = Str("allow")
       ELSE req.id = None /\ req.resume = None

\* C15: once init has stored init_params no call changes them, and every
\* wandb.init request made by reconnect (directly or from add_metrics, online
\* or offline) carries the stored project, group, name and resume id.
C15_ParamsFrozenAndUsed ==
    [][/\ init_params # None => init_params' = init_params
       /\ call'.op \in {"reconnect", "add_metrics"} =>
            \A i \in 1..Len(call'.reqs) :
                CarriesStored(call'.reqs[i], init_params')]_vars

\* a reconnect that asked for an online and then an offline session while a
\* run id is stored
C15_Witness ==
    /\ call.op = "reconnect"
    /\ Len(call.reqs) = 2
    /\ call.reqs[1].mode = None
    /\ call.reqs[2].mode = Str("offline")
    /\ init_params.id = Str("abc123")

\* what an establishment sequence leaves behind: the requests it issued, the
\* session it bound, the sessions it dropped, the environment, and whether it
\* ended online, offline or with the exception of the offline request
Established(s) ==
    [reqs |-> s.reqs, run |-> s.wandb_run, nsessions |-> s.nsessions,
     orphans |-> s.orphans, environ |-> s.environ, est |-> s.est,
     failed |-> s.exc # None]

\* C16: from the same state, with the stored parameters and the same backend
\* responses, the establishment of reconnect (lines 92-136) issues the same
\* requests and binds the same session as the establishment of init
\* (lines 48-65).
C16_SameEstablishment ==
    init_params # None =>
        \A onl \in BackendOutcomes, off \in BackendOutcomes :
            Established(Establish([Start("reconnect") EXCEPT
                                      !.environ.WANDB_CONSOLE = "off"],
                                  onl, off))
            = Established(init(Start("reconnect"), init_params.project,
                               init_params.id, None, onl, off))

\* init has established a session under a stored run id, and a reconnect has
\* then gone through the online request and the offline fallback
C16_Witness ==
    /\ initState = "ok"
    /\ init_params.id = Str("abc123")
    /\ call.op = "reconnect"
    /\ call.est = "offline"
    /\ Len(call.reqs) = 2
    /\ call.reqs[2].id = Str("abc123")

\* the fields of a working record that are tallies or counts of printed lines
TallyFields == {"error_count", "non_conn_error_count", "detected", "capped",
                "other"}

\* everything else: session handle, sessions created and dropped, cooldown
\* timestamp, clock, environment, exception, the reconnect invocations with
\* their return values (recs), the requests and the forwards
Behaviour(s) == [f \in DOMAIN s \ (TallyFields \cup {"ret"}) |-> s[f]]

\* the working record of a call made in the current state, but with both
\* tallies at zero
ZeroTallies(op) ==
    [Start(op) EXCEPT !.error_count = 0, !.non_conn_error_count = 0]

\* C17: the tallies influence only what is printed. In every reachable state,
\* a call of add_metrics or reconnect has, response for response, the same
\* behaviour (session handle, cooldown timestamp, reconnect return values,
\* forwards) as the same call made with both tallies at zero; two runs that
\* differ only in the tallies therefore stay equal in everything else.
C17_TalliesOnlyPrint ==
    /\ { Behaviour(s) : s \in add_metrics(Start("add_metrics")) }
       = { Behaviour(s) : s \in add_metrics(ZeroTallies("add_metrics")) }
    /\ { Behaviour(s) : s \in ReconnectOutcomes(Start("reconnect")) }
       = { Behaviour(s) : s \in ReconnectOutcomes(ZeroTallies("reconnect")) }

\* past the cap of printed lines, an add_metrics still reconnected and retried
C17_Witness ==
    /\ error_count > LogCap
    /\ call.op = "add_metrics"
    /\ Len(call.fwds) = 2
    /\ \E r \in CallRecs : r.gate = "passed" /\ r.ret = TRUE

\* C18 (as claimed): a non-null wandb_run is a session on which finish() has
\* not been called, and add_metrics never calls log on a session on which
\* finish() has been called.
C18_HandleNeverClosed ==
    /\ wandb_run # None => wandb_run.finish = "no"
    /\ ~call.stale

\* C19: no step takes wandb_run from a session back to None, and an
\* add_metrics that found no session (lines 144-147) only happens when init
\* was never called or raised (on the import or on both establishments).
C19_SessionNeverLost ==
    /\ [][wandb_run # None => wandb_run' # None]_vars
    /\ []((call.op = "add_metrics" /\ ~call.started) => initState # "ok")

\* init raised after storing its parameters; an add_metrics then found no
\* session, and its reconnect established one
C19_Witness ==
    /\ initState = "raised"
    /\ init_params # None
    /\ call.op = "add_metrics"
    /\ ~call.started
    /\ wandb_run # None
    /\ Len(call.recs) >= 1
    /\ call.recs[1].ret = TRUE

====
